---- MODULE Spec2Model ----
(***************************************************************************)
(* Model of user/build.py: the script that builds every application of     *)
(* src/bin at its own load address by patching the shared linker script,   *)
(* invoking cargo, reporting, and writing the linker script back.          *)
(*                                                                         *)
(* Text is modelled as a sequence of one-character strings.  The content   *)
(* of the linker script is the text a text-mode open() of it yields.       *)
(***************************************************************************)
EXTENDS Integers, Sequences, FiniteSets, TLC

(***************************************************************************)
(* Bounds of the model.                                                    *)
(***************************************************************************)
\* largest number of entries of src/bin
MaxApps == 3
\* largest number of entries of src/bin where two runs or termination are checked
MaxListed == 2

(***************************************************************************)
(* Constants of the script.  TLC integers are 32 bits wide and 0x80400000  *)
(* does not fit, so addresses are counted in units of 0x10000: both        *)
(* constants are multiples of it (0x80400000 = 0x8040 * 0x10000 and        *)
(* 0x20000 = 0x2 * 0x10000), and so is every base_address + step * app_id. *)
(***************************************************************************)
base_address == 32832
step == 2

\* the four hexadecimal digits of the 0x10000 unit that every address ends with
UnitDigits == <<"0", "0", "0", "0">>

(***************************************************************************)
(* Inputs: the names os.listdir may find in src/bin, and the contents the  *)
(* linker script may have before the run.                                  *)
(***************************************************************************)
NameUniverse ==
    { <<"a", ".", "r", "s">>,
      <<"a", "-", "b", ".", "r", "s">>,
      <<"a", ".", "t">>,
      <<"a", "b">>,
      <<"b", ".", "c", ".", "r", "s">> }

\* a script with one literal, on the second of three lines, the last unterminated
TemplateOne ==
    <<"B", "\n",
      "=", "0", "x", "8", "0", "4", "0", "0", "0", "0", "0", ";", "\n",
      "}">>
\* a script in which the literal occurs three times, twice on one line
TemplateMany ==
    <<"0", "x", "8", "0", "4", "0", "0", "0", "0", "0",
      "0", "x", "8", "0", "4", "0", "0", "0", "0", "0", "\n",
      "0", "x", "8", "0", "4", "0", "0", "0", "0", "0", "\n">>
\* a script that writes the address with another surface form
TemplateNone ==
    <<"=", "0", "X", "8", "0", "4", "0", "0", "0", "0", "0", "\n", "\n">>
\* an empty script
TemplateEmpty == <<>>

Templates == {TemplateOne, TemplateMany, TemplateNone, TemplateEmpty}

\* every order in which os.listdir may present at most n of the names
ListingsOf(names, n) ==
    { l \in UNION { [1..m -> names] : m \in 0..n } :
        \A i, j \in DOMAIN l : i # j => l[i] # l[j] }

Listings(n) == ListingsOf(NameUniverse, n)

Range(s) == { s[i] : i \in DOMAIN s }

(***************************************************************************)
(* Python built-ins the script uses.                                       *)
(***************************************************************************)
\* the code point of a character, which orders str values
Ord(c) ==
    CASE c = "-" -> 45
      [] c = "." -> 46
      [] c = "a" -> 97
      [] c = "b" -> 98
      [] c = "c" -> 99
      [] c = "r" -> 114
      [] c = "s" -> 115
      [] c = "t" -> 116

\* a < b on str: at the first position where they differ, or a is a proper prefix
StrLess(a, b) ==
    \E k \in 1..Len(b) :
        /\ k <= Len(a) + 1
        /\ \A m \in 1..(k - 1) : a[m] = b[m]
        /\ \/ k = Len(a) + 1
           \/ Ord(a[k]) < Ord(b[k])

\* x put into the sorted list s, after the elements that are not greater
Insert(s, x) ==
    LET before == { i \in 1..Len(s) : ~StrLess(x, s[i]) }
        n == Cardinality(before)
    IN SubSeq(s, 1, n) \o <<x>> \o SubSeq(s, n + 1, Len(s))

\* a sort that leaves the list in the order of the listing
SortNone(s) == s

RECURSIVE SortList(_)
\* list.sort(): ascending by <
SortList(s) ==
    IF s = <<>> THEN <<>>
    ELSE Insert(SortList(SubSeq(s, 1, Len(s) - 1)), s[Len(s)])

\* str.find(c): the 0-based index of the first c in s, -1 when there is none
Find(s, c) ==
    IF \E i \in 1..Len(s) : s[i] = c
    THEN (CHOOSE i \in 1..Len(s) : s[i] = c /\ \A j \in 1..(i - 1) : s[j] # c) - 1
    ELSE -1

\* s[:k]: the first k characters, a negative k counting from the end
SliceTo(s, k) ==
    IF k >= 0
    THEN SubSeq(s, 1, IF k < Len(s) THEN k ELSE Len(s))
    ELSE SubSeq(s, 1, IF Len(s) + k > 0 THEN Len(s) + k ELSE 0)

\* app[:app.find('.')]
StripName(app) == SliceTo(app, Find(app, "."))

HexDigit(d) ==
    <<"0", "1", "2", "3", "4", "5", "6", "7",
      "8", "9", "a", "b", "c", "d", "e", "f">>[d + 1]

RECURSIVE HexDigits(_)
HexDigits(n) ==
    IF n < 16 THEN <<HexDigit(n)>>
    ELSE HexDigits(n \div 16) \o <<HexDigit(n % 16)>>

\* hex(n * 0x10000): 0x, the digits without padding in lower case
Hex(n) ==
    IF n = 0 THEN <<"0", "x", "0">>
    ELSE <<"0", "x">> \o HexDigits(n) \o UnitDigits

\* an address that leaves the step out
AddressNoStep(id) == base_address + id

\* base_address + step * app_id
Address(id) == base_address + step * id

RECURSIVE ReplaceFrom(_, _, _, _)
ReplaceFrom(s, old, new, i) ==
    IF i > Len(s) THEN <<>>
    ELSE IF i + Len(old) - 1 <= Len(s) /\ SubSeq(s, i, i + Len(old) - 1) = old
         THEN new \o ReplaceFrom(s, old, new, i + Len(old))
         ELSE <<s[i]>> \o ReplaceFrom(s, old, new, i + 1)

\* a replace that stops after the first occurrence
ReplaceFirst(s, old, new) ==
    IF \E i \in 1..Len(s) : i + Len(old) - 1 <= Len(s) /\ SubSeq(s, i, i + Len(old) - 1) = old
    THEN LET i == CHOOSE i \in 1..Len(s) :
                      /\ i + Len(old) - 1 <= Len(s)
                      /\ SubSeq(s, i, i + Len(old) - 1) = old
                      /\ \A j \in 1..(i - 1) : SubSeq(s, j, j + Len(old) - 1) # old
         IN SubSeq(s, 1, i - 1) \o new \o SubSeq(s, i + Len(old), Len(s))
    ELSE s

\* a replace that ignores the case of the text it searches
ReplaceAnyCase(s, old, new) ==
    ReplaceFrom([i \in 1..Len(s) |-> IF s[i] = "X" THEN "x" ELSE s[i]], old, new, 1)

\* s.replace(old, new) for a non-empty old: every occurrence, left to right
Replace(s, old, new) == ReplaceFrom(s, old, new, 1)

RECURSIVE ReadLinesFrom(_, _, _)
ReadLinesFrom(content, i, cur) ==
    IF i > Len(content)
    THEN IF cur = <<>> THEN <<>> ELSE <<cur>>
    ELSE IF content[i] = "\n"
         THEN <<Append(cur, "\n")>> \o ReadLinesFrom(content, i + 1, <<>>)
         ELSE ReadLinesFrom(content, i + 1, Append(cur, content[i]))

\* a read that drops the terminator of every line
ReadLinesStripped(content) ==
    LET ls == ReadLinesFrom(content, 1, <<>>)
    IN [k \in 1..Len(ls) |->
          IF ls[k][Len(ls[k])] = "\n" THEN SubSeq(ls[k], 1, Len(ls[k]) - 1) ELSE ls[k]]

\* f.readlines(): the lines of the file, each with its terminator
ReadLines(content) == ReadLinesFrom(content, 1, <<>>)

RECURSIVE WriteLines(_)
\* f.writelines(ls) on a file truncated by open(.., 'w+')
WriteLines(ls) ==
    IF ls = <<>> THEN <<>> ELSE ls[1] \o WriteLines(Tail(ls))

\* the list the loop of lines 22-30 appends to `lines`
PatchLines(ls, id) ==
    [k \in 1..Len(ls) |-> Replace(ls[k], Hex(base_address), Hex(Address(id)))]

(***************************************************************************)
(* State.                                                                  *)
(***************************************************************************)
VARIABLES
    listing,       \* what os.listdir('src/bin') returned in this run
    apps,          \* the list `apps`
    pos,           \* number of elements the for loop has taken from apps
    app,           \* the loop variable `app`
    app_id,        \* the counter `app_id`
    lines,         \* the list `lines`
    lines_before,  \* the list `lines_before`
    linker,        \* content of the file src/linker.ld
    pc,            \* position of the script
    orig,          \* content of src/linker.ld before the first run
    builds,        \* the os.system calls of this run, in order
    reports,       \* the lines printed in this run, in order
    events,        \* the steps of this run on the linker script, in order
    run,           \* number of the current run
    prev           \* the listing and the assignment of the previous run

vars == <<listing, apps, pos, app, app_id, lines, lines_before, linker, pc,
          orig, builds, reports, events, run, prev>>

InitFrom(dirs) ==
    /\ listing \in dirs
    /\ linker \in Templates
    /\ orig = linker
    /\ apps = <<>>
    /\ pos = 0
    /\ app = <<>>
    /\ app_id = 0
    /\ lines = <<>>
    /\ lines_before = <<>>
    /\ pc = "start"
    /\ builds = <<>>
    /\ reports = <<>>
    /\ events = <<>>
    /\ run = 1
    /\ prev = [listing |-> <<>>, assignment |-> <<>>]

Init == InitFrom(Listings(MaxApps))

\* lines 10-12: app_id = 0, apps = os.listdir('src/bin'), apps.sort()
ListAndSort ==
    /\ pc = "start"
    /\ app_id' = 0
    /\ apps' = SortList(listing)
    /\ pc' = "loop"
    /\ UNCHANGED <<listing, pos, app, lines, lines_before, linker, orig,
                   builds, reports, events, run, prev>>

\* a loop head that does not empty `lines` and `lines_before`
NextAppKeepLists ==
    /\ pc = "loop"
    /\ pos < Len(apps)
    /\ pos' = pos + 1
    /\ app' = StripName(apps[pos + 1])
    /\ pc' = "read"
    /\ UNCHANGED <<listing, apps, app_id, lines, lines_before, linker, orig,
                   builds, reports, events, run, prev>>

\* lines 15-19: the next element of apps, stripped; or the end of the loop
NextApp ==
    /\ pc = "loop"
    /\ pos < Len(apps)
    /\ pos' = pos + 1
    /\ app' = StripName(apps[pos + 1])
    /\ lines' = <<>>
    /\ lines_before' = <<>>
    /\ pc' = "read"
    /\ UNCHANGED <<listing, apps, app_id, linker, orig, builds, reports,
                   events, run, prev>>

\* a loop end that writes `lines_before` once more
LoopEndRestore ==
    /\ pc = "loop"
    /\ pos = Len(apps)
    /\ linker' = WriteLines(lines_before)
    /\ events' = Append(events, <<"restore", app_id>>)
    /\ pc' = "done"
    /\ UNCHANGED <<listing, apps, pos, app, app_id, lines, lines_before,
                   orig, builds, reports, run, prev>>

LoopEnd ==
    /\ pc = "loop"
    /\ pos = Len(apps)
    /\ pc' = "done"
    /\ UNCHANGED <<listing, apps, pos, app, app_id, lines, lines_before,
                   linker, orig, builds, reports, events, run, prev>>

\* lines 21-30: read the linker script, keep its lines and the patched lines
ReadAndPatch ==
    /\ pc = "read"
    /\ lines_before' = lines_before \o ReadLines(linker)
    /\ lines' = lines \o PatchLines(ReadLines(linker), app_id)
    /\ events' = Append(events, <<"snapshot", app_id>>)
    /\ pc' = "write"
    /\ UNCHANGED <<listing, apps, pos, app, app_id, linker, orig, builds,
                   reports, run, prev>>

\* lines 31-32: write the patched lines
WritePatched ==
    /\ pc = "write"
    /\ linker' = WriteLines(lines)
    /\ events' = Append(events, <<"patch", app_id>>)
    /\ pc' = "build"
    /\ UNCHANGED <<listing, apps, pos, app, app_id, lines, lines_before,
                   orig, builds, reports, run, prev>>

\* a build that is invoked again when it fails
BuildRetry ==
    /\ pc = "build"
    /\ \E status \in {0, 1} :
          /\ builds' = Append(builds, [app |-> app, id |-> app_id,
                                       template |-> linker, status |-> status])
          /\ pc' = IF status = 0 \/ Len(builds) >= 2 * MaxApps THEN "report" ELSE "build"
    /\ events' = Append(events, <<"build", app_id>>)
    /\ UNCHANGED <<listing, apps, pos, app, app_id, lines, lines_before,
                   linker, orig, reports, run, prev>>

\* line 34: os.system('cargo build --bin %s --release' % app); its status is dropped
Build ==
    /\ pc = "build"
    /\ \E status \in {0, 1} :
          builds' = Append(builds, [app |-> app, id |-> app_id,
                                    template |-> linker, status |-> status])
    /\ events' = Append(events, <<"build", app_id>>)
    /\ pc' = "report"
    /\ UNCHANGED <<listing, apps, pos, app, app_id, lines, lines_before,
                   linker, orig, reports, run, prev>>

\* a report that is skipped when the build failed
ReportOnSuccess ==
    /\ pc = "report"
    /\ IF builds[Len(builds)].status = 0
       THEN /\ reports' = Append(reports, [app |-> app, id |-> app_id,
                                           address |-> Address(app_id),
                                           text |-> Hex(Address(app_id))])
            /\ events' = Append(events, <<"report", app_id>>)
       ELSE UNCHANGED <<reports, events>>
    /\ pc' = "restore"
    /\ UNCHANGED <<listing, apps, pos, app, app_id, lines, lines_before,
                   linker, orig, builds, run, prev>>

\* a report printed with the id of the next application
ReportNextId ==
    /\ pc = "report"
    /\ reports' = Append(reports, [app |-> app, id |-> app_id + 1,
                                   address |-> Address(app_id + 1),
                                   text |-> Hex(Address(app_id + 1))])
    /\ events' = Append(events, <<"report", app_id>>)
    /\ pc' = "restore"
    /\ UNCHANGED <<listing, apps, pos, app, app_id, lines, lines_before,
                   linker, orig, builds, run, prev>>

\* line 35: print
Report ==
    /\ pc = "report"
    /\ reports' = Append(reports, [app |-> app, id |-> app_id,
                                   address |-> Address(app_id),
                                   text |-> Hex(Address(app_id))])
    /\ events' = Append(events, <<"report", app_id>>)
    /\ pc' = "restore"
    /\ UNCHANGED <<listing, apps, pos, app, app_id, lines, lines_before,
                   linker, orig, builds, run, prev>>

\* a restore that writes the patched lines
RestorePatched ==
    /\ pc = "restore"
    /\ linker' = WriteLines(lines)
    /\ events' = Append(events, <<"restore", app_id>>)
    /\ pc' = "incr"
    /\ UNCHANGED <<listing, apps, pos, app, app_id, lines, lines_before,
                   orig, builds, reports, run, prev>>

\* a restore that is skipped when the build failed
RestoreOnSuccess ==
    /\ pc = "restore"
    /\ IF builds[Len(builds)].status = 0
       THEN /\ linker' = WriteLines(lines_before)
            /\ events' = Append(events, <<"restore", app_id>>)
       ELSE UNCHANGED <<linker, events>>
    /\ pc' = "incr"
    /\ UNCHANGED <<listing, apps, pos, app, app_id, lines, lines_before,
                   orig, builds, reports, run, prev>>

\* a restore that is left out
RestoreSkipped ==
    /\ pc = "restore"
    /\ pc' = "incr"
    /\ UNCHANGED <<listing, apps, pos, app, app_id, lines, lines_before,
                   linker, orig, builds, reports, events, run, prev>>

\* lines 36-37: write lines_before
Restore ==
    /\ pc = "restore"
    /\ linker' = WriteLines(lines_before)
    /\ events' = Append(events, <<"restore", app_id>>)
    /\ pc' = "incr"
    /\ UNCHANGED <<listing, apps, pos, app, app_id, lines, lines_before,
                   orig, builds, reports, run, prev>>

\* line 38: app_id = app_id + 1
Increment ==
    /\ pc = "incr"
    /\ app_id' = app_id + 1
    /\ pc' = "loop"
    /\ UNCHANGED <<listing, apps, pos, app, lines, lines_before, linker,
                   orig, builds, reports, events, run, prev>>

\* what a run assigned: the name, identity, id and printed address of each application
Assignment ==
    [k \in 1..Len(reports) |->
        [name |-> apps[k], app |-> reports[k].app, id |-> reports[k].id,
         text |-> reports[k].text]]

\* the script is run again on the same directory, listed in any order
Rerun ==
    /\ pc = "done"
    /\ run = 1
    /\ run' = 2
    /\ prev' = [listing |-> listing, assignment |-> Assignment]
    /\ listing' \in { l \in Listings(Len(listing)) : Range(l) = Range(listing) }
    /\ apps' = <<>>
    /\ pos' = 0
    /\ app' = <<>>
    /\ app_id' = 0
    /\ lines' = <<>>
    /\ lines_before' = <<>>
    /\ builds' = <<>>
    /\ reports' = <<>>
    /\ events' = <<>>
    /\ pc' = "start"
    /\ UNCHANGED <<linker, orig>>

Next ==
    \/ ListAndSort
    \/ NextApp
    \/ LoopEnd
    \/ ReadAndPatch
    \/ WritePatched
    \/ Build
    \/ Report
    \/ Restore
    \/ Increment

Spec == Init /\ [][Next]_vars

\* every statement that is reached is executed, and every os.system call returns
InitFair == InitFrom(Listings(MaxListed))

SpecFair == InitFair /\ [][Next]_vars /\ WF_vars(Next)

\* the script run on a directory in which every name has an extension
DottedNames == { n \in NameUniverse : \E i \in 1..Len(n) : n[i] = "." }

InitDotted == InitFrom(ListingsOf(DottedNames, MaxApps))

SpecDotted == InitDotted /\ [][Next]_vars

\* the script run twice on one directory
InitTwoRuns == InitFrom(Listings(MaxListed))

NextTwoRuns == Next \/ Rerun

SpecTwoRuns == InitTwoRuns /\ [][NextTwoRuns]_vars

(***************************************************************************)
(* Properties.                                                             *)
(***************************************************************************)
\* the text of the address the linker script holds before any run
CanonicalLiteral == <<"0", "x", "8", "0", "4", "0", "0", "0", "0", "0">>

\* p occurs in s
Occurs(s, p) ==
    \E i \in 1..Len(s) : i + Len(p) - 1 <= Len(s) /\ SubSeq(s, i, i + Len(p) - 1) = p

\* the events of the run that carry the operation op
EventsOf(op) == { e \in DOMAIN events : events[e][1] = op }

\* C1: the addresses assigned in one run, reported and patched into the linker
\* script, differ by step * (j - i) > 0 for ids i < j, so they are pairwise
\* distinct and increase with the id.
C1_AddressesSpacedByStep ==
    /\ \A i, j \in DOMAIN reports :
          reports[i].id < reports[j].id =>
             /\ reports[j].address - reports[i].address
                   = step * (reports[j].id - reports[i].id)
             /\ reports[j].address - reports[i].address > 0
             /\ reports[i].text # reports[j].text
    /\ \A i, j \in DOMAIN reports : i < j => reports[i].id < reports[j].id
    /\ \A i, j \in DOMAIN builds :
          (i < j /\ Occurs(orig, CanonicalLiteral)) =>
             /\ builds[i].template # builds[j].template
             /\ Occurs(builds[i].template, Hex(base_address + step * builds[i].id))
             /\ Occurs(builds[j].template, Hex(base_address + step * builds[j].id))

C1_Witness ==
    /\ Len(reports) = 3
    /\ Occurs(orig, CanonicalLiteral)

\* C2: when the run reaches its end, the linker script holds the content it
\* had before the run, whatever the number of applications and the outcomes
\* of their builds.
C2_RoundTrip == pc = "done" => linker = orig

C2_Witness ==
    /\ pc = "done"
    /\ Len(builds) = 2
    /\ builds[1].status = 1
    /\ builds[2].status = 0
    /\ builds[2].template # orig

\* C3: while the build of the application with id k is invoked, the linker
\* script is its original content with every occurrence of the canonical
\* literal replaced by the lower-case 0x hexadecimal text of
\* base_address + step * k.
C3_PatchedDuringBuild ==
    /\ Hex(base_address) = CanonicalLiteral
    /\ Hex(base_address + step * 1) = <<"0", "x", "8", "0", "4", "2", "0", "0", "0", "0">>
    /\ pc = "build" =>
          linker = Replace(orig, CanonicalLiteral, Hex(base_address + step * app_id))
    /\ \A k \in DOMAIN builds :
          /\ builds[k].template
                = Replace(orig, CanonicalLiteral, Hex(base_address + step * builds[k].id))
          /\ builds[k].id > 0 => ~Occurs(builds[k].template, CanonicalLiteral)

C3_Witness ==
    /\ pc = "build"
    /\ app_id = 1
    /\ orig = TemplateMany
    /\ linker # orig

\* C4: whether the build of an application succeeds or fails, the snapshot is
\* written back before the next application is processed: the linker script
\* is never left patched across an application boundary.
C4_RestoredAtBoundary ==
    pc \in {"incr", "loop", "read", "done"} =>
        /\ linker = orig
        /\ Cardinality(EventsOf("restore")) = Len(builds)
        /\ \A k \in DOMAIN builds :
              \E e \in EventsOf("restore") :
                 /\ events[e][2] = builds[k].id
                 /\ \E b \in EventsOf("build") : b < e /\ events[b][2] = builds[k].id

C4_Witness ==
    /\ pc = "read"
    /\ Len(builds) = 2
    /\ builds[2].status = 1
    /\ builds[2].template # orig

\* C5: two runs on the same set of names, listed in two different orders,
\* give every application the same id and the same address.
C5_SameAssignment ==
    run > 1 =>
        /\ \A k \in DOMAIN reports : k \in DOMAIN prev.assignment
                                     /\ Assignment[k] = prev.assignment[k]
        /\ pc = "done" => Assignment = prev.assignment

C5_Witness ==
    /\ run = 2
    /\ pc = "done"
    /\ Len(listing) = 2
    /\ Len(reports) = 2
    /\ listing # prev.listing
    /\ Range(listing) = Range(prev.listing)

\* the identities of the listing: every name stripped, then the list sorted
SortedIdentities ==
    SortList([i \in 1..Len(listing) |-> StripName(listing[i])])

\* C6: the id of each application is the 0-based position of its identity in
\* the list made by stripping every discovered name and then sorting.
C6_IdIsRankOfIdentity ==
    \A k \in DOMAIN builds : SortedIdentities[builds[k].id + 1] = builds[k].app

\* C7: the build is invoked once per application, in the order of the list,
\* whatever the outcomes: a failed build is not invoked again, and after it
\* the application is reported, the linker script restored and the next
\* application processed.
C7_OneBuildPerApp ==
    /\ Len(builds) <= Len(apps)
    /\ \A k \in DOMAIN builds :
          /\ builds[k].app = StripName(apps[k])
          /\ builds[k].id = k - 1
    /\ pc = "done" => Len(builds) = Len(apps)
    /\ \A k \in DOMAIN builds :
          (builds[k].status = 1 /\ (k < pos \/ pc \in {"incr", "loop", "done"})) =>
             /\ k \in DOMAIN reports
             /\ reports[k].app = builds[k].app
             /\ \E e \in EventsOf("restore") : events[e][2] = builds[k].id

C7_Witness ==
    /\ pc = "done"
    /\ Len(builds) = 3
    /\ builds[1].status = 1
    /\ builds[2].status = 1
    /\ builds[3].status = 0

\* C8: one line is printed per application, in processing order, after the
\* build of the application has returned and before its restore, with the
\* identity of the application and the hexadecimal text of
\* base_address + step * id, whether or not the build succeeded.
C8_OneReportPerBuild ==
    /\ Len(reports) <= Len(builds)
    /\ Len(builds) <= Len(reports) + 1
    /\ Len(reports) < Len(builds) => pc = "report"
    /\ pc = "done" => Len(reports) = Len(apps)
    /\ \A k \in DOMAIN reports :
          /\ reports[k].app = StripName(apps[k])
          /\ reports[k].app = builds[k].app
          /\ reports[k].id = k - 1
          /\ reports[k].text = Hex(base_address + step * (k - 1))
    /\ (Len(reports) >= 2) =>
          reports[2].text = <<"0", "x", "8", "0", "4", "2", "0", "0", "0", "0">>
    /\ \A e \in EventsOf("report") :
          /\ e > 1 /\ events[e - 1] = <<"build", events[e][2]>>
          /\ e < Len(events) => events[e + 1] = <<"restore", events[e][2]>>
          /\ e = Len(events) => pc = "restore"
    /\ Cardinality(EventsOf("report")) = Len(reports)

C8_Witness ==
    /\ pc = "restore"
    /\ Len(reports) = 2
    /\ builds[2].status = 1
    /\ linker # orig

\* C9: no identity is built or reported more than once in a run, also when
\* two discovered names strip to the same identity.
C9_NoIdentityTwice ==
    /\ \A i, j \in DOMAIN builds : i # j => builds[i].app # builds[j].app
    /\ \A i, j \in DOMAIN reports : i # j => reports[i].app # reports[j].app

\* the name up to its first '.', the whole name when it has none
BeforeFirstSeparator(name) ==
    IF \E i \in 1..Len(name) : name[i] = "."
    THEN SubSeq(name, 1, (CHOOSE i \in 1..Len(name) :
                             name[i] = "." /\ \A j \in 1..(i - 1) : name[j] # ".") - 1)
    ELSE name

\* C10: the identity built and reported for a discovered name is the name up
\* to its first '.', and a name without a '.' keeps all of its characters.
C10_IdentityIsStrippedName ==
    /\ \A k \in DOMAIN builds : builds[k].app = BeforeFirstSeparator(apps[k])
    /\ \A k \in DOMAIN reports : reports[k].app = BeforeFirstSeparator(apps[k])

\* C11: with an empty application list the run invokes no build, prints no
\* report line and never writes (or reads) the linker script.
C11_EmptyListNoEffect ==
    listing = <<>> =>
        /\ builds = <<>>
        /\ reports = <<>>
        /\ events = <<>>
        /\ linker = orig
        /\ pc \in {"start", "loop", "done"}

C11_Witness ==
    /\ listing = <<>>
    /\ pc = "done"
    /\ orig = TemplateOne

\* the steps of one application on the linker script, in order
StepOrder == <<"snapshot", "patch", "build", "report", "restore">>

\* C12: the steps of every application occur in the order snapshot, patch,
\* build, report, restore, the snapshot of application i+1 comes after the
\* restore of application i, and the linker script never holds the address of
\* an application other than the one being processed.
C12_Serialized ==
    /\ \A e \in DOMAIN events :
          events[e] = <<StepOrder[((e - 1) % 5) + 1], (e - 1) \div 5>>
    /\ \/ linker = orig
       \/ /\ pc \in {"build", "report", "restore"}
          /\ linker = Replace(orig, CanonicalLiteral, Hex(base_address + step * app_id))
    /\ pc \in {"read", "write"} => linker = orig

C12_Witness ==
    /\ Len(events) = 12
    /\ linker # orig
    /\ pc = "build"

\* C13: when every build returns, the run reaches its end after the restore
\* of the last application, and there the linker script holds its original
\* content.
C13_Terminates ==
    <>( /\ pc = "done"
        /\ linker = orig
        /\ Len(builds) = Len(listing)
        /\ listing # <<>> => events[Len(events)] = <<"restore", Len(listing) - 1>> )

C13_Witness ==
    /\ pc = "done"
    /\ Len(events) = 10
    /\ events[10] = <<"restore", 1>>
    /\ builds[2].status = 1
    /\ linker = orig
    /\ orig = TemplateMany

\* C14: when the canonical literal does not occur in the linker script, the
\* patch changes nothing: every build sees the original content, is still
\* invoked, and is still reported with base_address + step * id.
C14_AbsentLiteralNoOp ==
    ~Occurs(orig, CanonicalLiteral) =>
        /\ linker = orig
        /\ lines = lines_before
        /\ \A k \in DOMAIN builds : builds[k].template = orig
        /\ \A k \in DOMAIN reports :
              reports[k].text = Hex(base_address + step * (k - 1))
        /\ pc = "done" => (Len(builds) = Len(listing) /\ Len(reports) = Len(listing))

C14_Witness ==
    /\ orig = TemplateNone
    /\ pc = "done"
    /\ Len(builds) = 2
    /\ reports[2].text = <<"0", "x", "8", "0", "4", "2", "0", "0", "0", "0">>

\* the positions at which p occurs in s
Positions(s, p) ==
    { i \in 1..Len(s) : i + Len(p) - 1 <= Len(s) /\ SubSeq(s, i, i + Len(p) - 1) = p }

\* s with the text new in place of the Len(old) characters at position i
Substituted(s, i, old, new) ==
    SubSeq(s, 1, i - 1) \o new \o SubSeq(s, i + Len(old), Len(s))

\* C15: when the linker script holds the canonical literal once, the patch
\* changes that occurrence and nothing else: the content during the build
\* has the lines of the original, in order, and the same text around the
\* occurrence.
C15_OnlyTheLiteralChanges ==
    Cardinality(Positions(orig, CanonicalLiteral)) = 1 =>
        LET at == CHOOSE i \in Positions(orig, CanonicalLiteral) : TRUE
            before == ReadLines(orig)
        IN /\ \A k \in DOMAIN builds :
                 LET during == ReadLines(builds[k].template)
                     new == Hex(base_address + step * builds[k].id)
                 IN /\ builds[k].template = Substituted(orig, at, CanonicalLiteral, new)
                    /\ Len(during) = Len(before)
                    /\ \A n \in DOMAIN before :
                          \/ during[n] = before[n]
                          \/ \E i \in Positions(before[n], CanonicalLiteral) :
                                during[n] = Substituted(before[n], i, CanonicalLiteral, new)
                    /\ Cardinality({ n \in DOMAIN before : during[n] # before[n] }) <= 1
           /\ pc \in {"write", "build", "report", "restore"} =>
                 /\ Len(lines) = Len(lines_before)
                 /\ Cardinality({ n \in DOMAIN lines : lines[n] # lines_before[n] }) <= 1

C15_Witness ==
    /\ orig = TemplateOne
    /\ pc = "report"
    /\ Len(builds) = 2
    /\ builds[2].template # orig

\* C16: whenever the snapshot of an application is taken, the linker script
\* holds its original content, so the patch searches unpatched text and the
\* snapshot kept for the restore is the original content.
C16_SnapshotIsOriginal ==
    /\ pc = "read" => linker = orig
    /\ pc \in {"write", "build", "report", "restore"} =>
          /\ lines_before = ReadLines(orig)
          /\ WriteLines(lines_before) = orig
          /\ lines = PatchLines(ReadLines(orig), app_id)

C16_Witness ==
    /\ pc = "write"
    /\ app_id = 2
    /\ builds[2].status = 1
    /\ lines # lines_before

\* C17: when the canonical literal occurs in the linker script, the address
\* printed for an application is the address the linker script held in place
\* of the literal while the build of that application was invoked.
C17_ReportMatchesPatch ==
    Occurs(orig, CanonicalLiteral) =>
        \A k \in DOMAIN reports :
           /\ reports[k].id = builds[k].id
           /\ Occurs(builds[k].template, reports[k].text)
           /\ builds[k].template = Replace(orig, CanonicalLiteral, reports[k].text)
           /\ reports[k].text = Hex(reports[k].address)

C17_Witness ==
    /\ Occurs(orig, CanonicalLiteral)
    /\ Len(reports) = 3
    /\ pc = "restore"
    /\ builds[3].template # orig

====
